---------------------------- MODULE Spec2Model ----------------------------
(***************************************************************************)
(* FIFA World Cup winners dashboard (data_visualization_a7.py).            *)
(*                                                                         *)
(* The module models the static dataset, the win-count aggregation, the    *)
(* country-name mapping, the five Dash callbacks and the two dropdowns     *)
(* that feed them.  Two specifications are given:                          *)
(*   Spec      a browser session: the user changes or clears a dropdown    *)
(*             that is enabled, and the callbacks wired to that dropdown   *)
(*             run before the next user action;                            *)
(*   SpecCall  direct calls of the callbacks with arbitrary arguments.     *)
(***************************************************************************)
EXTENDS Integers, Sequences, FiniteSets, TLC

VARIABLES
    win_counts,        \* module-level table built at start-up (lines 22-23)
    country,           \* value of country-dropdown / argument selected_country
    year,              \* value of year-dropdown / argument selected_year
    country_disabled,  \* property "disabled" of country-dropdown
    year_disabled,     \* property "disabled" of year-dropdown
    figure,            \* property "figure" of choropleth-map
    win_output,        \* property "children" of win-output
    match_output,      \* property "children" of match-output
    mode,              \* branch of update_map taken by its last invocation
    fired,             \* callbacks invoked by the last input change
    raised,            \* callbacks among them that ended in an exception
    events,            \* history: the last MaxHist user events
    country_cleared    \* history: the country dropdown has been cleared

vars == <<win_counts, country, year, country_disabled, year_disabled, figure,
          win_output, match_output, mode, fired, raised, events,
          country_cleared>>

---------------------------------------------------------------------------
(* Python values *)

\* Python None where a string is expected (dropdown value, children).
None == "None"

\* Python None where an integer is expected (year-dropdown has no value).
NoneYear == -1

\* bool(x) of an optional string: None and "" are false.
TruthyStr(x) == x # None /\ x # ""

\* bool(x) of an optional integer: None and 0 are false.
TruthyInt(x) == x # NoneYear /\ x # 0

\* Length of the user-event history kept for the round-trip properties.
MaxHist == 2

---------------------------------------------------------------------------
(* Dataset, lines 9-19 *)

dataset ==
    [Year |-> <<1930, 1934, 1938, 1950, 1954, 1958, 1962, 1966, 1970, 1974, 1978,
                1982, 1986, 1990, 1994, 1998, 2002, 2006, 2010, 2014, 2018, 2022>>,
     Winner |-> <<"Uruguay", "Italy", "Italy", "Uruguay", "Germany", "Brazil",
                  "Brazil", "England", "Brazil", "Germany", "Argentina", "Italy",
                  "Argentina", "Germany", "Brazil", "France", "Brazil", "Italy",
                  "Spain", "Germany", "France", "Argentina">>,
     RunnerUp |-> <<"Argentina", "Czechoslovakia", "Hungary", "Brazil", "Hungary",
                    "Sweden", "Czechoslovakia", "Germany", "Italy", "Netherlands",
                    "Netherlands", "Germany", "Germany", "Argentina", "Italy",
                    "Brazil", "Germany", "France", "Netherlands", "Argentina",
                    "Croatia", "France">>]

\* pd.DataFrame(dataset): one row per index of the columns.
df ==
    [i \in 1..Len(dataset.Year) |->
        [Year |-> dataset.Year[i], Winner |-> dataset.Winner[i],
         RunnerUp |-> dataset.RunnerUp[i]]]

\* Set of the elements of a sequence.
Range(s) == {s[i] : i \in 1..Len(s)}

---------------------------------------------------------------------------
(* Aggregation, lines 22-23 *)

\* Index of the entry of table for country c, 0 when there is none.
IndexOf(table, c) ==
    IF \E i \in 1..Len(table) : table[i].Country = c
    THEN CHOOSE i \in 1..Len(table) : table[i].Country = c
                                      /\ \A j \in 1..(i - 1) : table[j].Country # c
    ELSE 0

\* One pass over a column: a new value opens an entry with count 1, a value
\* seen before adds 1 to its entry.
RECURSIVE Tally(_, _, _)
Tally(col, i, acc) ==
    IF i > Len(col) THEN acc
    ELSE LET k == IndexOf(acc, col[i]) IN
         IF k = 0
         THEN Tally(col, i + 1, Append(acc, [Country |-> col[i], Wins |-> 1]))
         ELSE Tally(col, i + 1,
                    [acc EXCEPT ![k] = [Country |-> acc[k].Country,
                                        Wins |-> acc[k].Wins + 1]])

\* Stable insertion of entry e into a table sorted by descending Wins.
RECURSIVE InsertDesc(_, _)
InsertDesc(sorted, e) ==
    IF sorted = <<>> THEN <<e>>
    ELSE IF Head(sorted).Wins >= e.Wins
         THEN <<Head(sorted)>> \o InsertDesc(Tail(sorted), e)
         ELSE <<e>> \o sorted

RECURSIVE SortDesc(_, _)
SortDesc(table, acc) ==
    IF table = <<>> THEN acc
    ELSE SortDesc(Tail(table), InsertDesc(acc, Head(table)))

\* Mutation: the tally opens a new entry for every row.
value_counts_dup(col) ==
    SortDesc([i \in 1..Len(col) |-> [Country |-> col[i], Wins |-> 1]], <<>>)

\* Series.value_counts().reset_index() with columns Country, Wins: one entry
\* per distinct value, the number of its occurrences, most frequent first.
value_counts(col) == SortDesc(Tally(col, 1, <<>>), <<>>)

---------------------------------------------------------------------------
(* Name mapping, lines 26-31 *)

mapping ==
    [c \in {"Czechoslovakia", "England"} |->
        IF c = "Czechoslovakia" THEN "Czechia" ELSE "United Kingdom"]

\* mapping.get(country, country)
map_country(c) == IF c \in DOMAIN mapping THEN mapping[c] ELSE c

---------------------------------------------------------------------------
(* Figures *)

\* A plotly trace: the fields of go.Choropleth / go.Scattergeo the callbacks set.
Trace(type, name, locations, z, text, colorscale, customdata) ==
    [type |-> type, name |-> name, locations |-> locations, z |-> z,
     text |-> text, colorscale |-> colorscale, customdata |-> customdata]

\* go.Figure() with nothing in it.
EmptyFigure ==
    [data |-> <<>>, annotations |-> <<>>, height |-> 0, legend_title |-> ""]

\* The keyword arguments go.Figure accepts besides layout properties.
FigureProperties == {"data", "layout", "frames", "skip_invalid"}

\* go.Figure(**kwargs): a keyword that is no property of a figure raises
\* ("invalid Figure property"); data= gives the traces of the figure.
go_Figure(kwargs) ==
    IF DOMAIN kwargs \subseteq FigureProperties
    THEN [raised |-> FALSE,
          fig |-> [EmptyFigure EXCEPT
                     !.data = IF "data" \in DOMAIN kwargs THEN kwargs.data
                              ELSE <<>>]]
    ELSE [raised |-> TRUE, fig |-> EmptyFigure]

\* win_counts[win_counts["Country"] == c]: the rows of the table for c.
RowsFor(table, c) ==
    LET Test(e) == e.Country = c IN SelectSeq(table, Test)

\* win_counts.loc[Country == c, "Wins"].values[0] if c in Country.values else 0
WinsOf(table, c) ==
    IF c \in {table[i].Country : i \in 1..Len(table)}
    THEN RowsFor(table, c)[1].Wins
    ELSE 0

\* The columns Result and MappedCountry added to the filtered rows.
WithMapped(rows) ==
    [i \in 1..Len(rows) |->
        [Country |-> rows[i].Country, Wins |-> rows[i].Wins,
         Result |-> "Winner", MappedCountry |-> map_country(rows[i].Country)]]

\* px.choropleth(filtered_data, locations="MappedCountry", color="Wins",
\* hover_data Country and Wins): one region per row, coloured by Wins on the
\* continuous colour axis.
px_choropleth(filtered_data) ==
    [EmptyFigure EXCEPT
       !.data = <<Trace("choropleth", "",
                        [i \in 1..Len(filtered_data) |-> filtered_data[i].MappedCountry],
                        [i \in 1..Len(filtered_data) |-> filtered_data[i].Wins],
                        <<>>, "coloraxis",
                        [i \in 1..Len(filtered_data) |->
                            <<filtered_data[i].Country, filtered_data[i].Wins>>])>>]

\* go.Scattergeo(locations=MappedCountry, text=Wins.astype(str), mode="text")
Scattergeo(scatter_data) ==
    Trace("scattergeo", "",
          [i \in 1..Len(scatter_data) |-> scatter_data[i].MappedCountry],
          <<>>,
          [i \in 1..Len(scatter_data) |-> ToString(scatter_data[i].Wins)],
          "", <<>>)

\* fig.add_trace(trace)
add_trace(fig, trace) == [fig EXCEPT !.data = Append(@, trace)]

\* The text of the legend annotation of the year view.
LegendText == "Legend: navy Winner, grey Runner-up"

\* Lines 86-133: the year view of one tournament record.
YearView(table, row) ==
    LET winner == row.Winner
        runner_up == row.RunnerUp
        winner_mapped == map_country(winner)
        runner_up_mapped == map_country(runner_up)
        winner_wins == WinsOf(table, winner)
        runner_up_wins == WinsOf(table, runner_up)
        trace_winner ==
            Trace("choropleth", "Winner", <<winner_mapped>>, <<1>>,
                  <<winner \o " (" \o ToString(winner_wins) \o " wins)">>,
                  "navy", <<>>)
        trace_runnerup ==
            Trace("choropleth", "Runner-up", <<runner_up_mapped>>, <<1>>,
                  <<runner_up \o " (" \o ToString(runner_up_wins) \o " wins)">>,
                  "grey", <<>>)
        made == go_Figure([dataset |-> <<trace_winner, trace_runnerup>>])
    IN  IF made.raised THEN made
        ELSE [raised |-> FALSE,
              fig |-> [made.fig EXCEPT !.annotations = Append(@, LegendText)]]

\* Lines 139-162 and 166-189: a choropleth of the rows with the win counts
\* written over it.
CountryView(rows) ==
    LET filtered_data == WithMapped(rows)
        scatter_data == WithMapped(filtered_data)
    IN  [raised |-> FALSE,
         fig |-> add_trace(px_choropleth(filtered_data), Scattergeo(scatter_data))]

\* Lines 192-211: fig.update_layout(height=800, ...) and the legend.
update_layout(fig) == [fig EXCEPT !.height = 800, !.legend_title = "Result"]

\* Mutation: the country test comes before the year test.
update_map_country_first(table, selected_country, selected_year) ==
    LET built ==
          IF selected_country # "All winners" /\ selected_country # None
          THEN [branch |-> "country",
                r |-> CountryView(RowsFor(table, selected_country))]
          ELSE IF TruthyInt(selected_year)
          THEN LET Test(r) == r.Year = selected_year
                   match == SelectSeq(df, Test)
               IN  [branch |-> "year",
                    r |-> IF match # <<>> THEN YearView(table, match[1])
                          ELSE go_Figure(<<>>)]
          ELSE [branch |-> "all", r |-> CountryView(table)]
    IN  [raised |-> built.r.raised, branch |-> built.branch,
         fig |-> IF built.r.raised THEN EmptyFigure ELSE update_layout(built.r.fig)]

\* Mutation: the overview skips the last row of the table.
update_map_drop(table, selected_country, selected_year) ==
    LET built ==
          IF TruthyInt(selected_year)
          THEN LET Test(r) == r.Year = selected_year
                   match == SelectSeq(df, Test)
               IN  [branch |-> "year",
                    r |-> IF match # <<>> THEN YearView(table, match[1])
                          ELSE go_Figure(<<>>)]
          ELSE IF selected_country # "All winners"
          THEN [branch |-> "country",
                r |-> CountryView(RowsFor(table, selected_country))]
          ELSE [branch |-> "all",
                r |-> CountryView(SubSeq(table, 1, Len(table) - 1))]
    IN  [raised |-> built.r.raised, branch |-> built.branch,
         fig |-> IF built.r.raised THEN EmptyFigure ELSE update_layout(built.r.fig)]

\* update_map(selected_country, selected_year), lines 81-213, reading the
\* module-level table.  branch names the arm of the if/elif chain that ran
\* ("none" when no arm did, and fig is unbound at line 192); raised tells
\* that the call ended in an exception instead of returning fig.
update_map(table, selected_country, selected_year) ==
    LET built ==
          IF TruthyInt(selected_year)
          THEN LET Test(r) == r.Year = selected_year
                   match == SelectSeq(df, Test)
               IN  [branch |-> "year",
                    r |-> IF match # <<>> THEN YearView(table, match[1])
                          ELSE go_Figure(<<>>)]
          ELSE IF selected_country # "All winners"
          THEN [branch |-> "country",
                r |-> CountryView(RowsFor(table, selected_country))]
          ELSE IF selected_country = "All winners"
          THEN [branch |-> "all", r |-> CountryView(table)]
          ELSE [branch |-> "none", r |-> [raised |-> TRUE, fig |-> EmptyFigure]]
    IN  [raised |-> built.r.raised, branch |-> built.branch,
         fig |-> IF built.r.raised THEN EmptyFigure ELSE update_layout(built.r.fig)]

\* Mutation: the sentence is built without the count's lookup.
display_wins_never(table, selected_country) ==
    IF selected_country = "All winners" \/ ~TruthyStr(selected_country) THEN ""
    ELSE selected_country \o " has never won the World Cup."

\* display_wins(selected_country), lines 221-227.
display_wins(table, selected_country) ==
    IF selected_country = "All winners" THEN ""
    ELSE IF ~TruthyStr(selected_country) THEN ""
    ELSE LET wins == [i \in 1..Len(RowsFor(table, selected_country)) |->
                         RowsFor(table, selected_country)[i].Wins]
         IN  IF Len(wins) > 0
             THEN selected_country \o " has won the World Cup "
                  \o ToString(wins[1]) \o " times."
             ELSE selected_country \o " has never won the World Cup."

\* display_match(selected_year), lines 234-241.
display_match(selected_year) ==
    IF ~TruthyInt(selected_year) THEN ""
    ELSE LET Test(r) == r.Year = selected_year
             match == SelectSeq(df, Test)
         IN  IF match # <<>>
             THEN "In " \o ToString(selected_year) \o ", " \o match[1].Winner
                  \o " won the World Cup, and " \o match[1].RunnerUp
                  \o " was the runner-up."
             ELSE "No data available for the selected year."

\* Mutation: the year dropdown is never disabled.
disable_year_dropdown_off(selected_country) == FALSE

\* disable_year_dropdown(selected_country), lines 248-249.
disable_year_dropdown(selected_country) ==
    IF selected_country = None THEN FALSE ELSE TRUE

\* Mutation: the test of the year is inverted.
disable_country_dropdown_inv(selected_year) ==
    IF selected_year = NoneYear THEN TRUE ELSE FALSE

\* disable_country_dropdown(selected_year), lines 256-257.
disable_country_dropdown(selected_year) ==
    IF selected_year = NoneYear THEN FALSE ELSE TRUE

---------------------------------------------------------------------------
(* Layout, lines 36-73 *)

\* Mutation: the country dropdown starts without a value.
DefaultCountry_unset == None

\* value= of country-dropdown, line 45.
DefaultCountry == "All winners"

\* options= of country-dropdown, lines 43-44.
CountryOptions ==
    {"All winners"} \cup {win_counts[i].Country : i \in 1..Len(win_counts)}

\* options= of year-dropdown, line 59.
YearOptions == {df[i].Year : i \in 1..Len(df)}

\* A year in which no tournament was played.
OtherYear == 2000

\* Arguments of a direct call: the options, the unset value, the countries
\* that only ever were runner-up, a year of no tournament.
CountryArgs ==
    {"All winners"} \cup Range(dataset.Winner) \cup Range(dataset.RunnerUp)
        \cup {None}
YearArgs == YearOptions \cup {NoneYear, OtherYear}

\* The callbacks wired to each input, lines 76-80, 217-220, 230-233, 244-247,
\* 252-255.
OnCountry == {"update_map", "display_wins", "disable_year_dropdown"}
OnYear == {"update_map", "display_match", "disable_country_dropdown"}

---------------------------------------------------------------------------
(* Browser session *)

\* The history keeps the last MaxHist user events.
Push(hist, e) ==
    IF Len(hist) < MaxHist THEN Append(hist, e)
    ELSE Append(Tail(hist), e)

\* A user event: the control, whether it carried a value before and after,
\* and the two disabled flags before the event.
Event(ctl, had, has) ==
    [ctl |-> ctl, had |-> had, has |-> has,
     country_disabled |-> country_disabled, year_disabled |-> year_disabled]

\* State after the page has loaded: the layout's values and the first run of
\* every callback on them.
Init ==
    /\ win_counts = value_counts(dataset.Winner)
    /\ country = DefaultCountry
    /\ year = NoneYear
    /\ country_disabled = disable_country_dropdown(NoneYear)
    /\ year_disabled = disable_year_dropdown(DefaultCountry)
    /\ LET r == update_map(value_counts(dataset.Winner), DefaultCountry, NoneYear)
       IN  /\ figure = r.fig
           /\ mode = r.branch
           /\ raised = IF r.raised THEN {"update_map"} ELSE {}
    /\ win_output = display_wins(value_counts(dataset.Winner), DefaultCountry)
    /\ match_output = display_match(NoneYear)
    /\ fired = OnCountry \cup OnYear
    /\ events = <<>>
    /\ country_cleared = FALSE

\* country-dropdown takes the value v: the three callbacks on it run.  A
\* callback that raises leaves its output as it was.
CountryChanged(v) ==
    LET r == update_map(win_counts, v, year) IN
    /\ country' = v
    /\ figure' = IF r.raised THEN figure ELSE r.fig
    /\ mode' = r.branch
    /\ win_output' = display_wins(win_counts, v)
    /\ year_disabled' = disable_year_dropdown(v)
    /\ fired' = OnCountry
    /\ raised' = IF r.raised THEN {"update_map"} ELSE {}
    /\ events' = Push(events, Event("country", country # None, v # None))
    /\ country_cleared' = (country_cleared \/ v = None)
    /\ UNCHANGED <<win_counts, year, country_disabled, match_output>>

\* year-dropdown takes the value y: the three callbacks on it run.
YearChanged(y) ==
    LET r == update_map(win_counts, country, y) IN
    /\ year' = y
    /\ figure' = IF r.raised THEN figure ELSE r.fig
    /\ mode' = r.branch
    /\ match_output' = display_match(y)
    /\ country_disabled' = disable_country_dropdown(y)
    /\ fired' = OnYear
    /\ raised' = IF r.raised THEN {"update_map"} ELSE {}
    /\ events' = Push(events, Event("year", year # NoneYear, y # NoneYear))
    /\ UNCHANGED <<win_counts, country, year_disabled, win_output, country_cleared>>

\* The user picks another option of the country dropdown.
SelectCountry ==
    /\ ~country_disabled
    /\ \E v \in CountryOptions : v # country /\ CountryChanged(v)

\* The user clears the country dropdown.
ClearCountry ==
    /\ ~country_disabled
    /\ country # None
    /\ CountryChanged(None)

\* The user picks another option of the year dropdown.
SelectYear ==
    /\ ~year_disabled
    /\ \E y \in YearOptions : y # year /\ YearChanged(y)

\* The user clears the year dropdown.
ClearYear ==
    /\ ~year_disabled
    /\ year # NoneYear
    /\ YearChanged(NoneYear)

Next == SelectCountry \/ ClearCountry \/ SelectYear \/ ClearYear

Spec == Init /\ [][Next]_vars

---------------------------------------------------------------------------
(* Direct calls of the callbacks *)

\* Any pair of arguments; no callback has run, the outputs are the layout's.
InitCall ==
    /\ win_counts = value_counts(dataset.Winner)
    /\ country \in CountryArgs
    /\ year \in YearArgs
    /\ country_disabled = FALSE
    /\ year_disabled = FALSE
    /\ figure = EmptyFigure
    /\ mode = None
    /\ win_output = None
    /\ match_output = None
    /\ fired = {}
    /\ raised = {}
    /\ events = <<>>
    /\ country_cleared = FALSE

Call_update_map ==
    LET r == update_map(win_counts, country, year) IN
    /\ "update_map" \notin fired
    /\ figure' = IF r.raised THEN figure ELSE r.fig
    /\ mode' = r.branch
    /\ fired' = fired \cup {"update_map"}
    /\ raised' = IF r.raised THEN raised \cup {"update_map"} ELSE raised
    /\ UNCHANGED <<win_counts, country, year, country_disabled, year_disabled,
                   win_output, match_output, events, country_cleared>>

Call_display_wins ==
    /\ "display_wins" \notin fired
    /\ win_output' = display_wins(win_counts, country)
    /\ fired' = fired \cup {"display_wins"}
    /\ UNCHANGED <<win_counts, country, year, country_disabled, year_disabled,
                   figure, mode, match_output, raised, events, country_cleared>>

Call_display_match ==
    /\ "display_match" \notin fired
    /\ match_output' = display_match(year)
    /\ fired' = fired \cup {"display_match"}
    /\ UNCHANGED <<win_counts, country, year, country_disabled, year_disabled,
                   figure, mode, win_output, raised, events, country_cleared>>

Call_disable_year_dropdown ==
    /\ "disable_year_dropdown" \notin fired
    /\ year_disabled' = disable_year_dropdown(country)
    /\ fired' = fired \cup {"disable_year_dropdown"}
    /\ UNCHANGED <<win_counts, country, year, country_disabled, figure, mode,
                   win_output, match_output, raised, events, country_cleared>>

Call_disable_country_dropdown ==
    /\ "disable_country_dropdown" \notin fired
    /\ country_disabled' = disable_country_dropdown(year)
    /\ fired' = fired \cup {"disable_country_dropdown"}
    /\ UNCHANGED <<win_counts, country, year, year_disabled, figure, mode,
                   win_output, match_output, raised, events, country_cleared>>

NextCall ==
    \/ Call_update_map
    \/ Call_display_wins
    \/ Call_display_match
    \/ Call_disable_year_dropdown
    \/ Call_disable_country_dropdown

SpecCall == InitCall /\ [][NextCall]_vars

---------------------------------------------------------------------------
(* Properties of the browser session (Spec) *)

\* C1: in every reachable state of a session the two dropdowns never both
\* carry a value.
C1_MutuallyExclusive == ~(country # None /\ year # NoneYear)

\* C1 witness: a year has been selected, and the country dropdown is empty
\* and locked.
C1_YearSelected == year # NoneYear /\ country = None /\ country_disabled

\* Each disabled flag is true exactly when the other dropdown carries a value.
FlagsFollowSelection ==
    /\ year_disabled = (country # None)
    /\ country_disabled = (year # NoneYear)

\* The last two user events selected a value in one control and then
\* cleared that control.
SelectedThenCleared ==
    /\ Len(events) >= 2
    /\ LET sel == events[Len(events) - 1]
           clr == events[Len(events)]
       IN  /\ sel.ctl = clr.ctl
           /\ sel.has
           /\ ~clr.has

\* The disabled flags are those the state had before the selection.
FlagsRestored ==
    LET sel == events[Len(events) - 1]
    IN  /\ country_disabled = sel.country_disabled
        /\ year_disabled = sel.year_disabled

\* C2 as stated: the flags follow the selections, and any selection followed
\* by clearing the same control restores the flags it started from.
C2_RoundTripAnySelection ==
    /\ FlagsFollowSelection
    /\ SelectedThenCleared => FlagsRestored

\* C2 amended: the flags follow the selections, and selecting a value in a
\* control that was empty and then clearing it restores both flags.
C2_RoundTripFromEmpty ==
    /\ FlagsFollowSelection
    /\ (SelectedThenCleared /\ ~events[Len(events) - 1].had) => FlagsRestored

\* C2 witness: a control that was empty got a value and was cleared again.
C2_RoundTripDone ==
    SelectedThenCleared /\ ~events[Len(events) - 1].had /\ FlagsRestored

\* C10: the session starts with "All winners" selected and the year dropdown
\* disabled; a year is only ever selected after the country dropdown has been
\* cleared, and then no country is selected.
C10_ClearBeforeYear ==
    /\ events = <<>> => (country = "All winners" /\ year_disabled)
    /\ year # NoneYear => (country_cleared /\ country = None)

\* C10 witness: the year-focused branch ran in a session, after a clear.
C10_YearViewReached ==
    mode = "year" /\ year \in YearOptions /\ country_cleared /\ events # <<>>

---------------------------------------------------------------------------
(* Properties of the win-count table *)

RECURSIVE SumWins(_)
SumWins(table) ==
    IF table = <<>> THEN 0 ELSE Head(table).Wins + SumWins(Tail(table))

\* Number of tournament records won by c.
RecordsWonBy(c) == Cardinality({i \in 1..Len(df) : df[i].Winner = c})

\* C7: the table has exactly one entry for every winner and none for any
\* other country, each entry counts the records its country won (at least
\* one), and the counts add up to 22.
C7_WinCountTable ==
    /\ {win_counts[i].Country : i \in 1..Len(win_counts)} = Range(dataset.Winner)
    /\ \A i, j \in 1..Len(win_counts) :
          win_counts[i].Country = win_counts[j].Country => i = j
    /\ \A i \in 1..Len(win_counts) :
          /\ win_counts[i].Wins >= 1
          /\ win_counts[i].Wins = RecordsWonBy(win_counts[i].Country)
    /\ SumWins(win_counts) = 22

\* C7 witness: the table in a session in progress, with Brazil's five wins
\* and England's one.
C7_TableInUse ==
    /\ events # <<>>
    /\ \E i, j \in 1..Len(win_counts) :
          /\ win_counts[i] = [Country |-> "Brazil", Wins |-> 5]
          /\ win_counts[j] = [Country |-> "England", Wins |-> 1]

---------------------------------------------------------------------------
(* Properties of the callbacks called directly (SpecCall) *)

\* update_map has been called and has returned a figure.
Returned == "update_map" \in fired /\ "update_map" \notin raised

\* The traces of a kind in a figure.
TracesOf(fig, type) ==
    LET Test(t) == t.type = type IN SelectSeq(fig.data, Test)

\* The number of regions a figure draws.
RECURSIVE CountLocations(_)
CountLocations(traces) ==
    IF traces = <<>> THEN 0
    ELSE Len(Head(traces).locations) + CountLocations(Tail(traces))

NumRegions(fig) == CountLocations(TracesOf(fig, "choropleth"))

\* The all-countries overview: a region for every entry of the table at its
\* display name, valued by its wins, and a text overlay with the count.
IsOverview(fig) ==
    /\ Len(fig.data) = 2
    /\ fig.data[1].type = "choropleth"
    /\ fig.data[2].type = "scattergeo"
    /\ Len(fig.data[1].locations) = Len(win_counts)
    /\ Len(fig.data[2].locations) = Len(win_counts)
    /\ \A i \in 1..Len(win_counts) :
          /\ fig.data[1].locations[i] = map_country(win_counts[i].Country)
          /\ fig.data[1].z[i] = win_counts[i].Wins
          /\ fig.data[2].locations[i] = map_country(win_counts[i].Country)
          /\ fig.data[2].text[i] = ToString(win_counts[i].Wins)

\* C3: with no year selected and the country "All winners" or unset,
\* update_map returns the all-countries overview.
C3_OverviewWhenAllOrUnset ==
    ("update_map" \in fired /\ year = NoneYear /\ country \in {"All winners", None})
        => (Returned /\ IsOverview(figure))

RecordOf(y) == df[CHOOSE i \in 1..Len(df) : df[i].Year = y]

\* The label of a country in the year view.
YearLabel(c) ==
    c \o " (" \o ToString(RecordsWonBy(c)) \o " wins)"

\* C5: for each dataset year update_map returns a figure with exactly two
\* regions, the winner in navy and the runner-up in grey, each at its display
\* name and labelled with its dataset name and total wins.
C5_YearViewTwoRegions ==
    ("update_map" \in fired /\ year \in YearOptions)
        => /\ Returned
           /\ Len(figure.data) = 2
           /\ figure.data[1].locations = <<map_country(RecordOf(year).Winner)>>
           /\ figure.data[1].colorscale = "navy"
           /\ figure.data[1].text = <<YearLabel(RecordOf(year).Winner)>>
           /\ figure.data[2].locations = <<map_country(RecordOf(year).RunnerUp)>>
           /\ figure.data[2].colorscale = "grey"
           /\ figure.data[2].text = <<YearLabel(RecordOf(year).RunnerUp)>>
           /\ (year = 1966 => figure.data[1].locations = <<"United Kingdom">>)

\* C6: no callback ends in an exception; for a year of no record update_map
\* returns a figure without traces and display_match the no-data message.
C6_NeverFatal ==
    /\ raised = {}
    /\ ("update_map" \in fired /\ year = OtherYear) => figure.data = <<>>
    /\ ("display_match" \in fired /\ year = OtherYear)
          => match_output = "No data available for the selected year."

\* The overview has been asked for: "All winners", no year.
OverviewCalled == "update_map" \in fired /\ country = "All winners" /\ year = NoneYear

\* C8 as stated: the overview draws as many regions as there are distinct
\* winners, which is 13.
C8_ThirteenRegions ==
    OverviewCalled
        => /\ Returned
           /\ NumRegions(figure) = Cardinality(Range(dataset.Winner))
           /\ NumRegions(figure) = 13

\* C8 amended: the overview draws as many regions as there are distinct
\* winners, which is 8.
C8_EightRegions ==
    OverviewCalled
        => /\ Returned
           /\ NumRegions(figure) = Cardinality(Range(dataset.Winner))
           /\ NumRegions(figure) = 8

\* C8 witness: the overview was returned with its regions.
C8_OverviewReturned == OverviewCalled /\ Returned /\ NumRegions(figure) > 0

\* The sentence display_wins is to return for a country, ending in tail
\* after the count.
WinsSentence(c, tail) ==
    IF c = None \/ c = "All winners" THEN ""
    ELSE IF \E i \in 1..Len(win_counts) : win_counts[i].Country = c
    THEN c \o " has won the World Cup "
         \o ToString(win_counts[CHOOSE i \in 1..Len(win_counts) :
                                    win_counts[i].Country = c].Wins)
         \o tail
    ELSE c \o " has never won the World Cup."

\* C9 as stated: display_wins returns "" for unset or "All winners", "<c> has
\* won the World Cup <N> times" for a winner (N = 5 for Brazil), and "<c> has
\* never won the World Cup." otherwise.
C9_SentenceWithoutStop ==
    "display_wins" \in fired
        => /\ win_output = WinsSentence(country, " times")
           /\ country = "Brazil"
                => win_output = "Brazil has won the World Cup 5 times"

\* C9 amended: as stated, with the winner's sentence ending in a full stop,
\* "<c> has won the World Cup <N> times.".
C9_SentenceWithStop ==
    "display_wins" \in fired
        => /\ win_output = WinsSentence(country, " times.")
           /\ country = "Brazil"
                => win_output = "Brazil has won the World Cup 5 times."
           /\ country = "Sweden"
                => win_output = "Sweden has never won the World Cup."

\* C9 witness: display_wins was called for a winner.
C9_WinnerAsked ==
    /\ "display_wins" \in fired
    /\ country = "Brazil"
    /\ win_output = "Brazil has won the World Cup 5 times."

=============================================================================
